---------------------------- MODULE Spec2Model ----------------------------
(***************************************************************************)
(* A model of the rule restrict-import of eslint-plugin-restrict-replace-  *)
(* import (src/src/rules/restrict-import.ts).                              *)
(*                                                                         *)
(* Strings are sequences of one-character strings.  The text of a file is  *)
(* a sequence of tokens; a token is a sequence of strings: a keyword, an   *)
(* identifier or a punctuator is a one-element token (<<"import">>), and a *)
(* string literal is the token of its raw characters, quotes included      *)
(* (<<"'", "a", "b", "'">>).                                               *)
(***************************************************************************)
EXTENDS Integers, Sequences, FiniteSets, TLC

Null == <<"null">>

Max(a, b) == IF a >= b THEN a ELSE b


\* s.slice(from) for a 0-based offset from
DropFirst(s, n) == SubSeq(s, n + 1, Len(s))

\* Array.prototype.includes / String.prototype.includes for one element
Includes(s, x) == \E i \in 1..Len(s) : s[i] = x

\* Array.prototype.filter, order kept
RECURSIVE SelectSeqBy(_, _)
SelectSeqBy(s, keep) ==
  IF s = << >> THEN << >>
  ELSE (IF Head(s) \in keep THEN << Head(s) >> ELSE << >>) \o SelectSeqBy(Tail(s), keep)

RECURSIVE Flatten(_)
Flatten(ss) == IF ss = << >> THEN << >> ELSE Head(ss) \o Flatten(Tail(ss))

(***************************************************************************)
(* Regular expressions (the ECMAScript engine, on the syntax the model's   *)
(* patterns use: literal characters, ".", "^", "$", "|", and the            *)
(* quantifiers "?" and "*", greedy or lazy, after a literal or ".").       *)
(***************************************************************************)
RegExpSyntax == {"^", "$", "|", "?", "*", "."}

\* the source split at its top-level "|": alternation binds weakest
RECURSIVE SplitAlternatives(_)
SplitAlternatives(src) ==
  IF ~Includes(src, "|") THEN << src >>
  ELSE LET i == CHOOSE k \in 1..Len(src) :
                  src[k] = "|" /\ \A j \in 1..(k - 1) : src[j] # "|"
       IN << SubSeq(src, 1, i - 1) >> \o SplitAlternatives(DropFirst(src, i))

IsAtomChar(c) == c \notin {"^", "$", "|", "?", "*"}

\* a "?" or "*" quantifies the atom before it; a "?" after a quantifier makes
\* it lazy; anything else is "Nothing to repeat"
QuantifierOk(alt, i) ==
  \/ i > 1 /\ IsAtomChar(alt[i - 1])
  \/ i > 2 /\ alt[i] = "?" /\ alt[i - 1] \in {"?", "*"} /\ IsAtomChar(alt[i - 2])

IsValidAlternative(alt) ==
  \A i \in 1..Len(alt) : alt[i] \in {"?", "*"} => QuantifierOk(alt, i)

\* whether new RegExp(src) returns (TRUE) or throws a SyntaxError (FALSE)
IsValidRegExp(src) ==
  LET alts == SplitAlternatives(src)
  IN \A a \in 1..Len(alts) : IsValidAlternative(alts[a])

\* the terms of one alternative: kind bol (^), eol ($), any (.), lit;
\* opt 0 = exactly once, 1 = greedy ?, 2 = lazy ??, 3 = greedy *, 4 = lazy *?
RECURSIVE ParseTerms(_)
ParseTerms(alt) ==
  IF alt = << >> THEN << >>
  ELSE LET c == alt[1]
           lazy == Len(alt) >= 3 /\ alt[3] = "?"
           q == IF Len(alt) >= 2 /\ alt[2] = "?" THEN (IF lazy THEN 2 ELSE 1)
                ELSE IF Len(alt) >= 2 /\ alt[2] = "*" THEN (IF lazy THEN 4 ELSE 3)
                ELSE 0
           width == IF q = 0 THEN 0 ELSE IF lazy THEN 2 ELSE 1
           kind == CASE c = "^" -> "bol" [] c = "$" -> "eol"
                     [] c = "." -> "any" [] OTHER -> "lit"
       IN << [kind |-> kind, c |-> c, opt |-> q] >> \o ParseTerms(DropFirst(alt, 1 + width))

\* new RegExp(src): the compiled alternatives
RegExpCompile(src) ==
  LET alts == SplitAlternatives(src)
  IN [a \in 1..Len(alts) |-> ParseTerms(alts[a])]

NoMatch == -1

\* the backtracking matcher: the end offset of the first match of terms k..
\* at offset pos of s, or NoMatch
RECURSIVE MatchFrom(_, _, _, _)
MatchFrom(terms, k, s, pos) ==
  IF k > Len(terms) THEN pos
  ELSE LET t == terms[k] IN
    CASE t.kind = "bol" -> IF pos = 0 THEN MatchFrom(terms, k + 1, s, pos) ELSE NoMatch
      [] t.kind = "eol" -> IF pos = Len(s) THEN MatchFrom(terms, k + 1, s, pos) ELSE NoMatch
      [] OTHER ->
         LET hit == pos < Len(s) /\ (t.kind = "any" \/ s[pos + 1] = t.c)
             take == IF hit THEN MatchFrom(terms, k + 1, s, pos + 1) ELSE NoMatch
             more == IF hit THEN MatchFrom(terms, k, s, pos + 1) ELSE NoMatch
             skip == MatchFrom(terms, k + 1, s, pos)
         IN CASE t.opt = 0 -> take
              [] t.opt = 1 -> IF take # NoMatch THEN take ELSE skip
              [] t.opt = 2 -> IF skip # NoMatch THEN skip ELSE take
              [] t.opt = 3 -> IF more # NoMatch THEN more ELSE skip
              [] OTHER -> IF skip # NoMatch THEN skip ELSE more

\* the end of the match of the first alternative that matches at pos
RECURSIVE MatchAlternatives(_, _, _, _)
MatchAlternatives(re, a, s, pos) ==
  IF a > Len(re) THEN NoMatch
  ELSE LET e == MatchFrom(re[a], 1, s, pos)
       IN IF e # NoMatch THEN e ELSE MatchAlternatives(re, a + 1, s, pos)

\* RegExpBuiltinExec: the leftmost match at or after lastIndex, << start, end >>,
\* or << NoMatch, NoMatch >>
RECURSIVE RegExpExec(_, _, _)
RegExpExec(re, s, lastIndex) ==
  IF lastIndex > Len(s) THEN << NoMatch, NoMatch >>
  ELSE LET e == MatchAlternatives(re, 1, s, lastIndex)
       IN IF e # NoMatch THEN << lastIndex, e >> ELSE RegExpExec(re, s, lastIndex + 1)

\* RegExp.prototype.test of a regex without flags
RegExpTest(re, s) == RegExpExec(re, s, 0)[1] # NoMatch

\* String.prototype.replace with a global regex and a replacement string that
\* holds no "$" pattern: every match, left to right; after an empty match the
\* search resumes one character further
RECURSIVE ReplaceFrom(_, _, _, _, _)
ReplaceFrom(re, s, repl, searchFrom, copyFrom) ==
  LET m == RegExpExec(re, s, searchFrom)
  IN IF m[1] = NoMatch THEN DropFirst(s, copyFrom)
     ELSE SubSeq(s, copyFrom + 1, m[1]) \o repl
          \o ReplaceFrom(re, s, repl, IF m[2] = m[1] THEN m[2] + 1 ELSE m[2], m[2])

StringReplaceGlobal(s, re, repl) == ReplaceFrom(re, s, repl, 0, 0)

(***************************************************************************)
(* Source text and its syntax tree (the host's parser, on import           *)
(* statements).  Offsets count tokens, 0-based; a range is << start, end >>*)
(* with end exclusive, as ESLint's node.range.                             *)
(***************************************************************************)
Tok(s) == << s >>

NL == Tok("\n")

Quotes == {"'", "\""}

Reserved == {"import", "from", "as", "{", "}", ",", "*", ";", "\n", "<eof>"}

\* a string literal: the delimiter does not occur between the delimiters (the
\* texts here hold no escapes)
IsStringToken(t) ==
  /\ Len(t) >= 2
  /\ t[1] \in Quotes
  /\ t[Len(t)] = t[1]
  /\ \A i \in 2..(Len(t) - 1) : t[i] # t[1]

IsIdentToken(t) == Len(t) = 1 /\ t[1] \notin Reserved /\ t[1] \notin Quotes

\* the token at 1-based index p, <eof> past the end
At(text, p) == IF p >= 1 /\ p <= Len(text) THEN text[p] ELSE Tok("<eof>")

\* Literal.value of a string literal token
LiteralValue(raw) == SubSeq(raw, 2, Len(raw) - 1)

ImportSpecifier(imported, local) ==
  [type |-> "ImportSpecifier", imported |-> imported, local |-> local]

ImportDefaultSpecifier(local) ==
  [type |-> "ImportDefaultSpecifier", imported |-> "default", local |-> local]

ImportNamespaceSpecifier(local) ==
  [type |-> "ImportNamespaceSpecifier", imported |-> "*", local |-> local]

ParseFail == [ok |-> FALSE, next |-> 0, specifiers |-> << >>]

\* the specifiers between "{" and "}", from the token at p on
RECURSIVE ParseNamedList(_, _, _)
ParseNamedList(text, p, acc) ==
  IF At(text, p) = Tok("}") THEN [ok |-> TRUE, next |-> p + 1, specifiers |-> acc]
  ELSE IF ~IsIdentToken(At(text, p)) THEN ParseFail
  ELSE LET aliased == At(text, p + 1) = Tok("as") /\ IsIdentToken(At(text, p + 2))
           spec == ImportSpecifier(text[p][1],
                                   IF aliased THEN text[p + 2][1] ELSE text[p][1])
           q == IF aliased THEN p + 3 ELSE p + 1
       IN IF At(text, q) = Tok(",") THEN ParseNamedList(text, q + 1, Append(acc, spec))
          ELSE IF At(text, q) = Tok("}")
               THEN [ok |-> TRUE, next |-> q + 1, specifiers |-> Append(acc, spec)]
               ELSE ParseFail

\* "* as ns" or "{ ... }" at p
ParseNamespaceOrNamed(text, p) ==
  IF At(text, p) = Tok("*")
  THEN IF At(text, p + 1) = Tok("as") /\ IsIdentToken(At(text, p + 2))
       THEN [ok |-> TRUE, next |-> p + 3,
             specifiers |-> << ImportNamespaceSpecifier(text[p + 2][1]) >>]
       ELSE ParseFail
  ELSE IF At(text, p) = Tok("{") THEN ParseNamedList(text, p + 1, << >>)
  ELSE ParseFail

\* the import clause at p, up to "from" (next is the index after "from")
ParseImportClause(text, p) ==
  LET first == IF IsIdentToken(At(text, p))
               THEN IF At(text, p + 1) = Tok(",")
                    THEN LET r == ParseNamespaceOrNamed(text, p + 2)
                         IN [r EXCEPT !.specifiers =
                               << ImportDefaultSpecifier(text[p][1]) >> \o @]
                    ELSE [ok |-> TRUE, next |-> p + 1,
                          specifiers |-> << ImportDefaultSpecifier(text[p][1]) >>]
               ELSE ParseNamespaceOrNamed(text, p)
  IN IF first.ok /\ At(text, first.next) = Tok("from")
     THEN [first EXCEPT !.next = @ + 1]
     ELSE ParseFail

\* the ImportDeclaration whose "import" is the token at p
ParseImportDeclaration(text, p) ==
  LET clause == IF IsStringToken(At(text, p + 1))
                THEN [ok |-> TRUE, next |-> p + 1, specifiers |-> << >>]
                ELSE ParseImportClause(text, p + 1)
      q == clause.next
      last == IF At(text, q + 1) = Tok(";") THEN q + 1 ELSE q
  IN IF clause.ok /\ IsStringToken(At(text, q))
     THEN [ok |-> TRUE, next |-> last + 1,
           node |-> [range |-> << p - 1, last >>,
                     specifiers |-> clause.specifiers,
                     source |-> [range |-> << q - 1, q >>,
                                 raw |-> text[q],
                                 value |-> LiteralValue(text[q])]]]
     ELSE [ok |-> FALSE, next |-> 0, node |-> << >>]

\* Program.body of the text, or ok = FALSE for a text that does not parse
RECURSIVE ParseBody(_, _, _)
ParseBody(text, p, acc) ==
  IF p > Len(text) THEN [ok |-> TRUE, body |-> acc]
  ELSE IF text[p] = NL THEN ParseBody(text, p + 1, acc)
  ELSE IF text[p] = Tok("import")
       THEN LET r == ParseImportDeclaration(text, p)
            IN IF r.ok THEN ParseBody(text, r.next, Append(acc, r.node))
               ELSE [ok |-> FALSE, body |-> << >>]
       ELSE [ok |-> FALSE, body |-> << >>]

Parse(text) == ParseBody(text, 1, << >>)

\* sourceCode.getText(node)
GetText(text, node) == SubSeq(text, node.range[1] + 1, node.range[2])

(***************************************************************************)
(* Configuration values.  A replacement is null, a string, or an object    *)
(* whose properties are kept as the pairs << key, value >> in the order    *)
(* the configuration declares them.                                        *)
(***************************************************************************)
\* context.options[0] when the rule is enabled with no options
Undefined == << [undefined |-> TRUE] >>

NoReplacement == [type |-> "null", str |-> << >>, map |-> << >>]

StringReplacement(s) == [type |-> "string", str |-> s, map |-> << >>]

ObjectReplacement(pairs) == [type |-> "object", str |-> << >>, map |-> pairs]

\* JavaScript truthiness of a replacement: null and "" are falsy
IsTruthy(replacement) ==
  \/ replacement.type = "object"
  \/ replacement.type = "string" /\ replacement.str # << >>

Digits == <<"0", "1", "2", "3", "4", "5", "6", "7", "8", "9">>

DigitValue(c) == (CHOOSE i \in 1..10 : Digits[i] = c) - 1

RECURSIVE NumericValue(_)
NumericValue(key) ==
  IF key = << >> THEN 0
  ELSE 10 * NumericValue(SubSeq(key, 1, Len(key) - 1)) + DigitValue(key[Len(key)])

\* a property key that is an array index (a canonical numeric string)
IsArrayIndex(key) ==
  /\ Len(key) >= 1
  /\ Len(key) <= 9
  /\ \A i \in 1..Len(key) : Includes(Digits, key[i])
  /\ (Len(key) > 1 => key[1] # "0")

\* the pairs whose key is an array index, in ascending numeric order
RECURSIVE SortByIndex(_)
SortByIndex(pairs) ==
  IF pairs = << >> THEN << >>
  ELSE LET m == CHOOSE i \in 1..Len(pairs) :
                  \A j \in 1..Len(pairs) :
                    \/ NumericValue(pairs[i][1]) < NumericValue(pairs[j][1])
                    \/ NumericValue(pairs[i][1]) = NumericValue(pairs[j][1]) /\ i <= j
       IN << pairs[m] >>
          \o SortByIndex(SubSeq(pairs, 1, m - 1) \o DropFirst(pairs, m))

\* Object.entries: OrdinaryOwnPropertyKeys lists the array-index keys first, in
\* ascending numeric order, then the other string keys in creation order
ObjectEntries(pairs) ==
  LET isIndex == {pr \in {pairs[i] : i \in 1..Len(pairs)} : IsArrayIndex(pr[1])}
      others == {pairs[i] : i \in 1..Len(pairs)} \ isIndex
  IN SortByIndex(SelectSeqBy(pairs, isIndex)) \o SelectSeqBy(pairs, others)

(***************************************************************************)
(* src/src/rules/restrict-import.ts                                        *)
(***************************************************************************)
\* a mutant of AnchoredSource: the end anchor is left out
AnchoredSourceNoEnd(target) == << "^" >> \o target

\* the source of the RegExp built from one target
AnchoredSource(target) == << "^" >> \o target \o << "$" >>

\* whether createRestrictedPackagesMap throws: a target that does not compile
createRestrictedPackagesMapThrows(opts) ==
  \/ opts = Undefined
  \/ \E i \in 1..Len(opts) : ~IsValidRegExp(AnchoredSource(opts[i].target))

\* a mutant of createRestrictedPackagesMap: a Map keyed by the target string,
\* where an entry with the target of an earlier one takes its place
RECURSIVE createRestrictedPackagesMapByTarget(_)
createRestrictedPackagesMapByTarget(opts) ==
  IF opts = << >> THEN << >>
  ELSE LET n == Len(opts)
           front == createRestrictedPackagesMapByTarget(SubSeq(opts, 1, n - 1))
           entry == [pattern |-> [source |-> AnchoredSource(opts[n].target)],
                     replacement |-> IF opts[n].bare THEN NoReplacement
                                     ELSE opts[n].replacement,
                     namedImports |-> IF opts[n].bare THEN Null ELSE opts[n].namedImports]
       IN IF \E i \in 1..Len(front) : front[i].pattern = entry.pattern
          THEN [i \in 1..Len(front) |->
                  IF front[i].pattern = entry.pattern THEN entry ELSE front[i]]
          ELSE Append(front, entry)

\* the Map, as its entries in insertion order: every key is a fresh RegExp
\* object, so no entry replaces another
createRestrictedPackagesMap(opts) ==
  [i \in 1..Len(opts) |->
     [pattern |-> [source |-> AnchoredSource(opts[i].target)],
      replacement |-> IF opts[i].bare THEN NoReplacement ELSE opts[i].replacement,
      namedImports |-> IF opts[i].bare THEN Null ELSE opts[i].namedImports]]

\* pattern.test(importSource)
PatternTest(pattern, importSource) ==
  RegExpTest(RegExpCompile(pattern.source), importSource)

\* !restrictedPackageOptions.namedImports?.length
HasNoNamedImports(entry) == entry.namedImports = Null \/ Len(entry.namedImports) = 0

\* namedImports.find(...): the first listed name the statement imports, or Null
FindRestrictedName(listed, namedImports) ==
  IF \E k \in 1..Len(listed) : Includes(namedImports, listed[k])
  THEN LET k == CHOOSE k \in 1..Len(listed) :
                  /\ Includes(namedImports, listed[k])
                  /\ \A j \in 1..(k - 1) : ~Includes(namedImports, listed[j])
       IN listed[k]
  ELSE "null"

NoCheckerResult == [type |-> "null", pattern |-> 0, restrictedImportedName |-> "null"]

\* the loop of checkIsRestrictedImport from entry i on; pattern is the index of
\* the entry whose RegExp is returned
RECURSIVE checkFrom(_, _, _, _)
checkFrom(importSource, namedImports, packages, i) ==
  IF i > Len(packages) THEN NoCheckerResult
  ELSE IF ~PatternTest(packages[i].pattern, importSource)
       THEN checkFrom(importSource, namedImports, packages, i + 1)
  ELSE IF HasNoNamedImports(packages[i])
       THEN [type |-> "module", pattern |-> i, restrictedImportedName |-> "null"]
  ELSE LET name == FindRestrictedName(packages[i].namedImports, namedImports)
       IN IF name # "null" /\ name # ""
          THEN [type |-> "importedName", pattern |-> i, restrictedImportedName |-> name]
          ELSE checkFrom(importSource, namedImports, packages, i + 1)

\* a mutant of checkIsRestrictedImport: the loop does not return at the first
\* result, so the last entry that gives one wins
checkLastResultWins(importSource, namedImports, packages) ==
  LET n == Len(packages)
      r == checkFrom(importSource, namedImports, [i \in 1..n |-> packages[n + 1 - i]], 1)
  IN IF r.type = "null" THEN r ELSE [r EXCEPT !.pattern = n + 1 - @]

\* a mutant of checkIsRestrictedImport: the first entry whose pattern matches
\* decides, and a scoped entry that lists none of the names ends the search
checkFirstMatchDecides(importSource, namedImports, packages) ==
  IF \A i \in 1..Len(packages) : ~PatternTest(packages[i].pattern, importSource)
  THEN NoCheckerResult
  ELSE LET i == CHOOSE i \in 1..Len(packages) :
                  /\ PatternTest(packages[i].pattern, importSource)
                  /\ \A j \in 1..(i - 1) : ~PatternTest(packages[j].pattern, importSource)
       IN checkFrom(importSource, namedImports, SubSeq(packages, 1, i), i)

checkIsRestrictedImport(importSource, namedImports, packages) ==
  checkFrom(importSource, namedImports, packages, 1)

getPatternDisplayName(regExpPatternSource) ==
  SubSeq(regExpPatternSource, 2, Len(regExpPatternSource) - 1)

getQuoteStyle(raw) == IF Includes(raw, "'") THEN "'" ELSE "\""

\* the text of a string literal
QuotedToken(quote, value) == << quote >> \o value \o << quote >>

SpecifierTokens(s) ==
  IF s.imported = s.local THEN << Tok(s.imported) >>
  ELSE << Tok(s.imported), Tok("as"), Tok(s.local) >>

\* specifiers.map(...).join(', ')
RECURSIVE JoinSpecifiers(_)
JoinSpecifiers(specifiers) ==
  IF specifiers = << >> THEN << >>
  ELSE IF Len(specifiers) = 1 THEN SpecifierTokens(specifiers[1])
  ELSE SpecifierTokens(specifiers[1]) \o << Tok(",") >> \o JoinSpecifiers(Tail(specifiers))

formatSpecifiers(specifiers) == JoinSpecifiers(specifiers)

\* the tokens of the template `${semicolon}`
SemicolonTokens(semicolon) == IF semicolon = ";" THEN << Tok(";") >> ELSE << >>

OfType(specifiers, type) ==
  SelectSeqBy(specifiers, {s \in {specifiers[i] : i \in 1..Len(specifiers)} : s.type = type})

createImportText(specifiers, source, quote, semicolon) ==
  LET defaults == OfType(specifiers, "ImportDefaultSpecifier")
      namespaces == OfType(specifiers, "ImportNamespaceSpecifier")
      namedSpecifiers == OfType(specifiers, "ImportSpecifier")
      tail == << Tok("from"), QuotedToken(quote, source) >> \o SemicolonTokens(semicolon)
  IN IF namespaces # << >>
     THEN << Tok("import"), Tok("*"), Tok("as"), Tok(namespaces[1].local) >> \o tail
     ELSE IF defaults # << >>
     THEN IF namedSpecifiers = << >>
          THEN << Tok("import"), Tok(defaults[1].local) >> \o tail
          ELSE << Tok("import"), Tok(defaults[1].local), Tok(","), Tok("{") >>
               \o JoinSpecifiers(namedSpecifiers) \o << Tok("}") >> \o tail
     ELSE IF namedSpecifiers # << >>
     THEN << Tok("import"), Tok("{") >> \o JoinSpecifiers(namedSpecifiers)
          \o << Tok("}") >> \o tail
     ELSE << Tok("import"), QuotedToken(quote, source) >> \o SemicolonTokens(semicolon)

(***************************************************************************)
(* Fixes.  An edit is [range, text]; a fix is null or the edits the fix    *)
(* callback returns.                                                       *)
(***************************************************************************)
ReplaceText(node, tokens) == [range |-> node.range, text |-> tokens]

Remove(node) == [range |-> node.range, text |-> << >>]

InsertTextBefore(node, tokens) ==
  [range |-> << node.range[1], node.range[1] >>, text |-> tokens]

NullFix == [isNull |-> TRUE, threw |-> FALSE, edits |-> << >>]

Fix(edits) == [isNull |-> FALSE, threw |-> FALSE, edits |-> edits]

\* a fix callback that throws when the host calls it
ThrowingFix == [isNull |-> FALSE, threw |-> TRUE, edits |-> << >>]

\* a mutant of createStringReplacer: the literal is rewritten with the value it
\* has
createStringReplacerKeepsValue(sourceNode, replacement, quote) ==
  ReplaceText(sourceNode, << QuotedToken(quote, sourceNode.value) >>)

createStringReplacer(sourceNode, replacement, quote) ==
  ReplaceText(sourceNode, << QuotedToken(quote, replacement) >>)

\* the loop of createPatternReplacer over Object.entries(replacementPatterns)
RECURSIVE ApplyPatterns(_, _)
ApplyPatterns(result, entries) ==
  IF entries = << >> THEN result
  ELSE ApplyPatterns(
         StringReplaceGlobal(result, RegExpCompile(entries[1][1]), entries[1][2]),
         Tail(entries))

\* new RegExp(pattern, 'g') throws for some key
createPatternReplacerThrows(replacementPatterns) ==
  \E i \in 1..Len(replacementPatterns.map) :
    ~IsValidRegExp(replacementPatterns.map[i][1])

createPatternReplacer(sourceNode, replacementPatterns, quote) ==
  IF replacementPatterns.type = "string"
  THEN createStringReplacer(sourceNode, replacementPatterns.str, quote)
  ELSE ReplaceText(sourceNode,
         << QuotedToken(quote,
              ApplyPatterns(sourceNode.value, ObjectEntries(replacementPatterns.map))) >>)

\* a mutant of createModuleReplacer: no early return for a missing replacement,
\* which is written as the empty string
createModuleReplacerNoNullCheck(node, replacement) ==
  LET quote == getQuoteStyle(node.source.raw)
  IN IF replacement.type # "object"
     THEN Fix(<< createStringReplacer(node.source, replacement.str, quote) >>)
     ELSE IF createPatternReplacerThrows(replacement) THEN ThrowingFix
     ELSE Fix(<< createPatternReplacer(node.source, replacement, quote) >>)

createModuleReplacer(node, replacement) ==
  IF ~IsTruthy(replacement) THEN NullFix
  ELSE LET quote == getQuoteStyle(node.source.raw)
       IN IF replacement.type = "string"
          THEN Fix(<< createStringReplacer(node.source, replacement.str, quote) >>)
          ELSE IF createPatternReplacerThrows(replacement) THEN ThrowingFix
          ELSE Fix(<< createPatternReplacer(node.source, replacement, quote) >>)

\* a mutant of NamedImportsOf: the specifiers are not filtered by type, and the
\* local names of default and namespace specifiers count as import names
NamedImportsOfEverySpecifier(node) ==
  [i \in 1..Len(node.specifiers) |->
     IF node.specifiers[i].type = "ImportSpecifier"
     THEN node.specifiers[i].imported ELSE node.specifiers[i].local]

\* the names of a statement's ImportSpecifiers, in order
NamedImportsOf(node) ==
  LET named == OfType(node.specifiers, "ImportSpecifier")
  IN [i \in 1..Len(named) |-> named[i].imported]

\* the 1-based index of the first "{" of the tokens and of the first "}" after
\* it, or 0: what /import\s*(?:[^{]*,\s*)?{([^}]*)}/ and /\{[^}]*\}/ find in the
\* text of an import statement
FirstIndexOf(tokens, t, from) ==
  IF \E i \in from..Len(tokens) : tokens[i] = t
  THEN CHOOSE i \in from..Len(tokens) :
         tokens[i] = t /\ \A j \in from..(i - 1) : tokens[j] # t
  ELSE 0

updateExistingImport(text, existingImport, specifiersToAdd, quote, semicolon, replacement) ==
  LET existingNamedSpecifiers == NamedImportsOf(existingImport)
      newSpecifiersToAdd ==
        SelectSeqBy(specifiersToAdd,
          {sp \in {specifiersToAdd[i] : i \in 1..Len(specifiersToAdd)} :
             ~Includes(existingNamedSpecifiers, sp.imported)})
      existingText == GetText(text, existingImport)
      open == FirstIndexOf(existingText, Tok("{"), 1)
      close == IF open = 0 THEN 0 ELSE FirstIndexOf(existingText, Tok("}"), open + 1)
      defaults == OfType(existingImport.specifiers, "ImportDefaultSpecifier")
  IN IF newSpecifiersToAdd = << >> THEN << >>
     ELSE IF Len(existingNamedSpecifiers) > 0
     THEN IF open # 0 /\ close # 0
          THEN << ReplaceText(existingImport,
                    SubSeq(existingText, 1, open)
                    \o SubSeq(existingText, open + 1, close - 1)
                    \o << Tok(",") >> \o formatSpecifiers(newSpecifiersToAdd)
                    \o DropFirst(existingText, close - 1)) >>
          ELSE << >>
     ELSE IF defaults # << >>
     THEN << ReplaceText(existingImport,
               << Tok("import"), Tok(defaults[1].local), Tok(","), Tok("{") >>
               \o formatSpecifiers(newSpecifiersToAdd)
               \o << Tok("}"), Tok("from"), QuotedToken(quote, replacement) >>
               \o SemicolonTokens(semicolon)) >>
     ELSE << >>

\* String.prototype.endsWith(';')
EndsWithSemicolon(s) == Len(s) > 0 /\ s[Len(s)] = ";"

\* groupedByReplacement as the pairs << replacement, names >> in the order the
\* reduce creates the properties
RECURSIVE GroupByReplacement(_, _)
GroupByReplacement(importRestrictions, acc) ==
  IF importRestrictions = << >> THEN acc
  ELSE LET r == importRestrictions[1]
           key == r.replacement.str
           at == IF \E i \in 1..Len(acc) : acc[i][1] = key
                 THEN CHOOSE i \in 1..Len(acc) : acc[i][1] = key ELSE 0
       IN GroupByReplacement(Tail(importRestrictions),
            IF ~IsTruthy(r.replacement) THEN acc
            ELSE IF at = 0 THEN Append(acc, << key, << r.importName >> >>)
            ELSE [acc EXCEPT ![at] = << key, Append(@[2], r.importName) >>])

\* node.specifiers.find(...) for one restricted name, mapped to SpecifierInfo
SpecifiersToMove(node, restrictedNames) ==
  LET named == OfType(node.specifiers, "ImportSpecifier")
      found == SelectSeqBy(restrictedNames,
                 {n \in {restrictedNames[i] : i \in 1..Len(restrictedNames)} :
                    \E k \in 1..Len(named) : named[k].imported = n})
  IN [i \in 1..Len(found) |->
        LET k == CHOOSE k \in 1..Len(named) :
                   /\ named[k].imported = found[i]
                   /\ \A j \in 1..(k - 1) : named[j].imported # found[i]
        IN [imported |-> named[k].imported, local |-> named[k].local]]

\* allImports.find((importNode) => importNode.source.value === replacement): the
\* index in the body, or 0
FindExistingImport(allImports, replacement) ==
  IF \E i \in 1..Len(allImports) : allImports[i].source.value = replacement
  THEN CHOOSE i \in 1..Len(allImports) :
         /\ allImports[i].source.value = replacement
         /\ \A j \in 1..(i - 1) : allImports[j].source.value # replacement
  ELSE 0

\* the body of the forEach over Object.entries(groupedByReplacement)
ReplacementModuleFixes(text, allImports, node, group, quote, semicolon) ==
  LET replacement == group[1]
      specifiersToMove == SpecifiersToMove(node, group[2])
      existing == FindExistingImport(allImports, replacement)
  IN IF specifiersToMove = << >> THEN << >>
     ELSE IF existing # 0
     THEN updateExistingImport(text, allImports[existing], specifiersToMove,
                               quote, semicolon, replacement)
     ELSE << InsertTextBefore(node,
               << Tok("import"), Tok("{") >> \o formatSpecifiers(specifiersToMove)
               \o << Tok("}"), Tok("from"), QuotedToken(quote, replacement) >>
               \o SemicolonTokens(semicolon) \o << NL >>) >>

createMultiNamedImportReplacer(text, allImports, node, importRestrictions) ==
  LET quote == getQuoteStyle(node.source.raw)
      semicolon == IF EndsWithSemicolon(node.source.raw)
                      \/ EndsWithSemicolon(node.source.value) THEN ";" ELSE ""
      allRestrictedNames == [i \in 1..Len(importRestrictions) |->
                               importRestrictions[i].importName]
      groupedByReplacement == GroupByReplacement(importRestrictions, << >>)
      remainingSpecifiers ==
        SelectSeqBy(node.specifiers,
          {sp \in {node.specifiers[i] : i \in 1..Len(node.specifiers)} :
             sp.type # "ImportSpecifier" \/ ~Includes(allRestrictedNames, sp.imported)})
      original == IF remainingSpecifiers = << >> THEN Remove(node)
                  ELSE ReplaceText(node,
                         createImportText(remainingSpecifiers, node.source.value,
                                          quote, semicolon))
      groups == ObjectEntries(groupedByReplacement)
  IN IF importRestrictions = << >> THEN NullFix
     ELSE Fix(<< original >>
              \o Flatten([g \in 1..Len(groups) |->
                   ReplacementModuleFixes(text, allImports, node, groups[g],
                                          quote, semicolon)]))

\* the inner for-loop of the handler for one import name: the index of the
\* first entry that restricts it, or 0
RECURSIVE FirstRestrictionFrom(_, _, _, _)
FirstRestrictionFrom(packages, importSource, importName, i) ==
  IF i > Len(packages) THEN 0
  ELSE IF /\ PatternTest(packages[i].pattern, importSource)
          /\ packages[i].namedImports # Null
          /\ Includes(packages[i].namedImports, importName)
          /\ packages[i].replacement.type \in {"string", "null"}
       THEN i
       ELSE FirstRestrictionFrom(packages, importSource, importName, i + 1)

\* importRestrictions: one entry per import name that some entry restricts
RECURSIVE ImportRestrictions(_, _, _)
ImportRestrictions(packages, importSource, namedImports) ==
  IF namedImports = << >> THEN << >>
  ELSE LET i == FirstRestrictionFrom(packages, importSource, namedImports[1], 1)
       IN (IF i = 0 THEN << >>
           ELSE << [importName |-> namedImports[1],
                    replacement |-> packages[i].replacement,
                    pattern |-> i] >>)
          \o ImportRestrictions(packages, importSource, Tail(namedImports))

\* the replacement a rewritten specifier ends at when the module entry that
\* matches a string replacement is followed, at most fuel times
RECURSIVE FollowRules(_, _, _)
FollowRules(packages, replacement, fuel) ==
  IF fuel = 0 \/ replacement.type # "string" THEN replacement
  ELSE LET r == checkIsRestrictedImport(replacement.str, << >>, packages)
       IN IF r.type = "module" /\ packages[r.pattern].replacement.type = "string"
          THEN FollowRules(packages, packages[r.pattern].replacement, fuel - 1)
          ELSE replacement

\* a mutant of ImportDeclarationReports: the module plan follows the entries
\* that match the replacement and writes the module the chain ends at
ImportDeclarationReportsFollowingRules(packages, text, allImports, n) ==
  LET node == allImports[n]
      importSource == node.source.value
      namedImports == NamedImportsOf(node)
      checkerResult == checkIsRestrictedImport(importSource, namedImports, packages)
      options == packages[checkerResult.pattern]
      importRestrictions == ImportRestrictions(packages, importSource, namedImports)
  IN IF checkerResult.type = "null" THEN << >>
     ELSE IF checkerResult.type = "module"
     THEN << [node |-> n,
              kind |-> "module",
              rule |-> checkerResult.pattern,
              messageId |-> IF options.replacement.type = "string"
                            THEN "ImportRestrictionWithReplacement"
                            ELSE "ImportRestriction",
              data |-> [name |-> getPatternDisplayName(options.pattern.source),
                        importedName |-> "",
                        replacement |-> options.replacement],
              fix |-> createModuleReplacer(node,
                        FollowRules(packages, options.replacement, Len(packages)))] >>
     ELSE [k \in 1..Len(importRestrictions) |->
            LET restriction == importRestrictions[k]
            IN [node |-> n,
                kind |-> "namedImport",
                rule |-> restriction.pattern,
                messageId |-> IF IsTruthy(restriction.replacement)
                              THEN "ImportedNameRestrictionWithReplacement"
                              ELSE "ImportedNameRestriction",
                data |-> [name |-> importSource,
                          importedName |-> restriction.importName,
                          replacement |-> IF restriction.replacement.type = "null"
                                          THEN StringReplacement(<< >>)
                                          ELSE restriction.replacement],
                fix |-> IF IsTruthy(restriction.replacement)
                        THEN createMultiNamedImportReplacer(text, allImports, node,
                                                            importRestrictions)
                        ELSE NullFix]]

\* the reports of the ImportDeclaration handler for statement n of the body;
\* rule is the index of the entry whose pattern the handler holds
ImportDeclarationReports(packages, text, allImports, n) ==
  LET node == allImports[n]
      importSource == node.source.value
      namedImports == NamedImportsOf(node)
      checkerResult == checkIsRestrictedImport(importSource, namedImports, packages)
      options == packages[checkerResult.pattern]
      importRestrictions == ImportRestrictions(packages, importSource, namedImports)
  IN IF checkerResult.type = "null" THEN << >>
     ELSE IF checkerResult.type = "module"
     THEN << [node |-> n,
              kind |-> "module",
              rule |-> checkerResult.pattern,
              messageId |-> IF options.replacement.type = "string"
                            THEN "ImportRestrictionWithReplacement"
                            ELSE "ImportRestriction",
              data |-> [name |-> getPatternDisplayName(options.pattern.source),
                        importedName |-> "",
                        replacement |-> options.replacement],
              fix |-> createModuleReplacer(node, options.replacement)] >>
     ELSE [k \in 1..Len(importRestrictions) |->
            LET restriction == importRestrictions[k]
            IN [node |-> n,
                kind |-> "namedImport",
                rule |-> restriction.pattern,
                messageId |-> IF IsTruthy(restriction.replacement)
                              THEN "ImportedNameRestrictionWithReplacement"
                              ELSE "ImportedNameRestriction",
                data |-> [name |-> importSource,
                          importedName |-> restriction.importName,
                          replacement |-> IF restriction.replacement.type = "null"
                                          THEN StringReplacement(<< >>)
                                          ELSE restriction.replacement],
                fix |-> IF IsTruthy(restriction.replacement)
                        THEN createMultiNamedImportReplacer(text, allImports, node,
                                                            importRestrictions)
                        ELSE NullFix]]

(***************************************************************************)
(* The host: ESLint merges the edits of one report into one fix, applies   *)
(* the fixes of a pass that do not overlap, and lints the result again.    *)
(***************************************************************************)
\* compareFixesByRange / compareMessagesByFixRange
RangeBefore(a, b) ==
  \/ a.range[1] < b.range[1]
  \/ a.range[1] = b.range[1] /\ a.range[2] < b.range[2]

\* a stable sort by range
RECURSIVE SortByRange(_)
SortByRange(fixes) ==
  IF fixes = << >> THEN << >>
  ELSE LET m == CHOOSE i \in 1..Len(fixes) :
                  /\ \A j \in 1..Len(fixes) : ~RangeBefore(fixes[j], fixes[i])
                  /\ \A j \in 1..(i - 1) : RangeBefore(fixes[i], fixes[j])
       IN << fixes[m] >> \o SortByRange(SubSeq(fixes, 1, m - 1) \o DropFirst(fixes, m))

\* mergeFixes asserts that the sorted edits of one report do not overlap
EditsOverlap(edits) ==
  LET sorted == SortByRange(edits)
  IN \E i \in 2..Len(sorted) : sorted[i].range[1] < sorted[i - 1].range[2]

\* the text of the merged fix: the edits' texts with the source between them
RECURSIVE MergedText(_, _, _)
MergedText(text, sorted, lastPos) ==
  IF sorted = << >> THEN << >>
  ELSE SubSeq(text, lastPos + 1, sorted[1].range[1]) \o sorted[1].text
       \o MergedText(text, Tail(sorted), sorted[1].range[2])

\* normalizeFixes / mergeFixes: one edit for the fix of one report
MergeFixes(text, edits) ==
  LET sorted == SortByRange(edits)
  IN IF Len(edits) = 1 THEN edits[1]
     ELSE [range |-> << sorted[1].range[1], sorted[Len(sorted)].range[2] >>,
           text |-> MergedText(text, sorted, sorted[1].range[1])]

\* the merged fixes of the reports that carry one
ReportFixes(text, rs) ==
  LET fixable == SelectSeqBy(rs, {r \in {rs[i] : i \in 1..Len(rs)} :
                                    ~r.fix.isNull /\ r.fix.edits # << >>})
  IN [i \in 1..Len(fixable) |-> MergeFixes(text, fixable[i].fix.edits)]

\* SourceCodeFixer.applyFixes: attemptFix over the sorted fixes; a fix that
\* starts at or before the end of the last applied one is skipped
RECURSIVE AttemptFixes(_, _, _, _)
AttemptFixes(text, sorted, lastPos, started) ==
  IF sorted = << >> THEN DropFirst(text, Max(0, lastPos))
  ELSE LET f == sorted[1]
       IN IF started /\ lastPos >= f.range[1]
          THEN AttemptFixes(text, Tail(sorted), lastPos, started)
          ELSE SubSeq(text, Max(0, lastPos) + 1, f.range[1]) \o f.text
               \o AttemptFixes(text, Tail(sorted), f.range[2], TRUE)

ApplyFixesTo(text, rs) == AttemptFixes(text, SortByRange(ReportFixes(text, rs)), 0, FALSE)

(***************************************************************************)
(* The state: the rule's options and the file's text are the inputs; one   *)
(* lint pass creates the rule, visits every import statement and applies   *)
(* the fixes; the host then lints the fixed text again.                    *)
(***************************************************************************)
VARIABLES
  options,             \* context.options[0]
  text,                \* the file's text
  phase,               \* start | visit | done | threw | fatal
  restrictedPackages,  \* the Map create builds
  body,                \* sourceCode.ast.body of the pass
  cursor,              \* the index of the next statement the host visits
  reports,             \* what context.report received in the pass
  pass,                \* the number of passes whose fixes were applied
  prevText             \* the text the last finished pass linted

vars == << options, text, phase, restrictedPackages, body, cursor, reports, pass, prevText >>

\* the host stops after this many passes (ESLint's MAX_AUTOFIX_PASSES is 10)
MaxPasses == 2

\* create(context), after the host parsed the text
create ==
  /\ phase = "start"
  /\ IF ~Parse(text).ok
     THEN /\ phase' = "fatal"
          /\ UNCHANGED << restrictedPackages, body, cursor, reports >>
     ELSE IF createRestrictedPackagesMapThrows(options)
     THEN /\ phase' = "threw"
          /\ UNCHANGED << restrictedPackages, body, cursor, reports >>
     ELSE /\ phase' = "visit"
          /\ restrictedPackages' = createRestrictedPackagesMap(options)
          /\ body' = Parse(text).body
          /\ cursor' = 1
          /\ reports' = << >>
  /\ UNCHANGED << options, text, pass, prevText >>

\* the ImportDeclaration handler on the next statement, with the fix callbacks
\* the host calls while it takes the reports
ImportDeclaration ==
  /\ phase = "visit"
  /\ cursor <= Len(body)
  /\ LET rs == ImportDeclarationReports(restrictedPackages, text, body, cursor)
     IN IF \E k \in 1..Len(rs) : rs[k].fix.threw \/ EditsOverlap(rs[k].fix.edits)
        THEN phase' = "threw" /\ UNCHANGED << reports, cursor >>
        ELSE phase' = phase /\ reports' = reports \o rs /\ cursor' = cursor + 1
  /\ UNCHANGED << options, text, restrictedPackages, body, pass, prevText >>

\* the end of the traversal: the host applies the fixes and lints again when
\* something was fixed
ApplyFixes ==
  /\ phase = "visit"
  /\ cursor > Len(body)
  /\ text' = ApplyFixesTo(text, reports)
  /\ prevText' = text
  /\ pass' = pass + 1
  /\ phase' = IF ReportFixes(text, reports) # << >> /\ pass + 1 < MaxPasses
              THEN "start" ELSE "done"
  /\ UNCHANGED << options, restrictedPackages, body, cursor, reports >>

Next == create \/ ImportDeclaration \/ ApplyFixes

InitRun ==
  /\ phase = "start"
  /\ restrictedPackages = << >>
  /\ body = << >>
  /\ cursor = 0
  /\ reports = << >>
  /\ pass = 0
  /\ prevText = << >>

(***************************************************************************)
(* Inputs.                                                                 *)
(***************************************************************************)
\* the strings over an alphabet of length lo..hi
StringsOver(alphabet, lo, hi) == UNION {[1..k -> alphabet] : k \in lo..hi}

Entry(bare, target, namedImports, replacement) ==
  [bare |-> bare, target |-> target, namedImports |-> namedImports,
   replacement |-> replacement]

BareEntry(target) == Entry(TRUE, target, Null, NoReplacement)

\* the text of one import statement from its clause (the tokens between
\* "import" and the source literal)
StatementText(clause, value, quote, semicolon) ==
  << Tok("import") >> \o clause \o << QuotedToken(quote, value) >>
  \o SemicolonTokens(semicolon)

DefaultClause(local) == << Tok(local), Tok("from") >>

NamespaceClause(local) == << Tok("*"), Tok("as"), Tok(local), Tok("from") >>

NamedClause(specifiers) ==
  << Tok("{") >> \o JoinSpecifiers(specifiers) \o << Tok("}"), Tok("from") >>

DefaultAndNamedClause(local, specifiers) ==
  << Tok(local), Tok(","), Tok("{") >> \o JoinSpecifiers(specifiers)
  \o << Tok("}"), Tok("from") >>

\* statements, one per line
RECURSIVE FileText(_)
FileText(statements) ==
  IF statements = << >> THEN << >>
  ELSE IF Len(statements) = 1 THEN statements[1]
  ELSE statements[1] \o << NL >> \o FileText(Tail(statements))

(***************************************************************************)
(* SpecMatch: one entry with any target over the target alphabet, and one  *)
(* statement with any source over the source alphabet.                     *)
(***************************************************************************)
MaxTargetLen == 3

MaxSourceLen == 2

TargetAlphabet == {"a", "b", "?", "|"}

SourceAlphabet == {"a", "b", "?"}

MatchTargets == StringsOver(TargetAlphabet, 1, MaxTargetLen)

MatchSources == StringsOver(SourceAlphabet, 1, MaxSourceLen)

InitMatch ==
  /\ InitRun
  /\ \E bare \in BOOLEAN, target \in MatchTargets :
       options = << Entry(bare, target, Null, NoReplacement) >>
  /\ \E source \in MatchSources :
       text = StatementText(DefaultClause("d"), source, "'", "")

SpecMatch == InitMatch /\ [][Next]_vars

(***************************************************************************)
(* Spec: up to MaxRules entries with and without namedImports and with the *)
(* three forms of replacement, and one statement of any shape.             *)
(***************************************************************************)
MaxRules == 2

X == ImportSpecifier("x", "x")

Y == ImportSpecifier("y", "y")

Z == ImportSpecifier("z", "z")

XasZ == ImportSpecifier("x", "z")

MapReplacement == ObjectReplacement(<< << << "m" >>, << "r" >> >> >>)

RuleEntries ==
  {BareEntry(<< "m" >>),
   Entry(FALSE, << "m" >>, Null, StringReplacement(<< "r" >>)),
   Entry(FALSE, << "m" >>, Null, StringReplacement(<< >>)),
   Entry(FALSE, << "." >>, Null, StringReplacement(<< "s" >>)),
   Entry(FALSE, << "." >>, Null, MapReplacement),
   Entry(FALSE, << "m" >>, << "x" >>, NoReplacement),
   Entry(FALSE, << "m" >>, << "x" >>, StringReplacement(<< "r" >>)),
   Entry(FALSE, << "m" >>, << "x" >>, MapReplacement),
   Entry(FALSE, << "." >>, << "x" >>, StringReplacement(<< "s" >>)),
   Entry(FALSE, << "m" >>, << "y", "x" >>, NoReplacement),
   Entry(FALSE, << "m" >>, << "y", "x" >>, StringReplacement(<< "r" >>))}

RuleConfigs == StringsOver(RuleEntries, 1, MaxRules)

RuleClauses ==
  {DefaultClause("d"), DefaultClause("x"), NamespaceClause("x"),
   NamedClause(<< X >>), NamedClause(<< Y >>), NamedClause(<< Z >>),
   NamedClause(<< X, Y >>), NamedClause(<< XasZ, Y >>),
   DefaultAndNamedClause("d", << X, Z >>)}

RuleStatements ==
  {StatementText(c, << "m" >>, "'", "") : c \in RuleClauses}
  \cup {StatementText(c, << "n" >>, "'", "") :
          c \in {DefaultClause("d"), NamedClause(<< X >>), NamedClause(<< X, Y >>)}}
  \cup {StatementText(c, << "m" >>, "\"", ";") :
          c \in {DefaultClause("d"), NamedClause(<< X >>), DefaultAndNamedClause("d", << X, Z >>)}}
  \cup {StatementText(c, << "'" >>, "\"", ";") :
          c \in {DefaultClause("d"), NamedClause(<< X, Y >>)}}
  \cup {StatementText(<< >>, << "m" >>, "'", ";")}

Init ==
  /\ InitRun
  /\ options \in RuleConfigs
  /\ text \in RuleStatements

Spec == Init /\ [][Next]_vars

(***************************************************************************)
(* SpecMap: one entry whose replacement is an object of up to MaxPairs     *)
(* properties with distinct keys, and one statement it matches.            *)
(***************************************************************************)
MaxPairs == 2

MapKeys == {<< "a" >>, << "b" >>, << "1" >>, << "2" >>, << "b", "?" >>, << "?" >>}

MapValues == {<< >>, << "a" >>, << "1" >>, << "2" >>}

MapPairs ==
  {pairs \in StringsOver(MapKeys \X MapValues, 1, MaxPairs) :
     \A i, j \in 1..Len(pairs) : i # j => pairs[i][1] # pairs[j][1]}

MapSources == {<< "a", "b" >>, << "b", "1" >>, << "1", "2" >>}

InitMap ==
  /\ InitRun
  /\ \E pairs \in MapPairs :
       options = << Entry(FALSE, << ".", "." >>, Null, ObjectReplacement(pairs)) >>
  /\ \E source \in MapSources :
       text = StatementText(DefaultClause("d"), source, "'", "")

SpecMap == InitMap /\ [][Next]_vars

(***************************************************************************)
(* SpecFix: up to MaxRules entries that restrict names of module m, and a  *)
(* file of up to MaxStatements import statements: statements that import   *)
(* from m, and imports of the replacement modules.                         *)
(***************************************************************************)
MaxStatements == 2

XasQ == ImportSpecifier("x", "q")

FixEntries ==
  {Entry(FALSE, << "m" >>, << "x" >>, StringReplacement(<< "r" >>)),
   Entry(FALSE, << "m" >>, << "y" >>, StringReplacement(<< "1" >>)),
   Entry(FALSE, << "m" >>, << "x" >>, StringReplacement(<< "m" >>)),
   Entry(FALSE, << "m" >>, Null, StringReplacement(<< "r" >>)),
   Entry(FALSE, << "m" >>, Null, MapReplacement)}

FixConfigs == StringsOver(FixEntries, 1, MaxRules)

FixStatements ==
  {StatementText(NamedClause(<< X, Y >>), << "m" >>, "'", ""),
   StatementText(DefaultAndNamedClause("d", << X, Z >>), << "m" >>, "'", ""),
   StatementText(NamedClause(<< X, XasZ >>), << "m" >>, "'", ""),
   StatementText(NamedClause(<< Z >>), << "r" >>, "'", ""),
   StatementText(NamedClause(<< XasQ >>), << "r" >>, "'", ""),
   StatementText(NamespaceClause("n"), << "r" >>, "'", ""),
   StatementText(DefaultClause("d"), << "1" >>, "\"", ";")}

FixFiles == {FileText(f) : f \in StringsOver(FixStatements, 1, MaxStatements)}

InitFix ==
  /\ InitRun
  /\ options \in FixConfigs
  /\ text \in FixFiles

SpecFix == InitFix /\ [][Next]_vars

\* Files where two statements import from the restricted module m with
\* different local names, alone or after a statement that already imports from
\* the replacement module r.
YasW == ImportSpecifier("y", "w")

XasV == ImportSpecifier("x", "v")

MergeEntries ==
  {Entry(FALSE, << "m" >>, << "x" >>, StringReplacement(<< "r" >>)),
   Entry(FALSE, << "m" >>, << "y" >>, StringReplacement(<< "r" >>)),
   Entry(FALSE, << "m" >>, << "y", "x" >>, StringReplacement(<< "r" >>))}

MergeConfigs == StringsOver(MergeEntries, 1, MaxRules)

MergeExisting ==
  {StatementText(NamedClause(<< Z >>), << "r" >>, "'", ""),
   StatementText(DefaultClause("e"), << "r" >>, "'", "")}

MergeFirst ==
  {StatementText(NamedClause(<< X >>), << "m" >>, "'", ""),
   StatementText(NamedClause(<< X, Y >>), << "m" >>, "'", "")}

MergeSecond ==
  {StatementText(NamedClause(<< YasW >>), << "m" >>, "'", ""),
   StatementText(DefaultAndNamedClause("d", << XasV >>), << "m" >>, "'", "")}

MergeFiles ==
  {FileText(<< a, b >>) : a \in MergeFirst, b \in MergeSecond}
  \cup {FileText(<< e, a, b >>) : e \in MergeExisting, a \in MergeFirst, b \in MergeSecond}

InitMerge ==
  /\ InitRun
  /\ options \in MergeConfigs
  /\ text \in MergeFiles

SpecMerge == InitMerge /\ [][Next]_vars

\* The rule as the recommended config enables it, with no options, and with
\* chains of replacements: underscore (u) is replaced by lodash (l), lodash by
\* lodash-es (e), and lodash-es may be restricted with no replacement.
ChainEntries ==
  {Entry(FALSE, << "u" >>, Null, StringReplacement(<< "l" >>)),
   Entry(FALSE, << "l" >>, Null, StringReplacement(<< "e" >>)),
   BareEntry(<< "e" >>)}

ChainConfigs == StringsOver(ChainEntries, 1, MaxRules + 1)

ChainStatements ==
  {StatementText(DefaultClause("d"), << "u" >>, "'", ""),
   StatementText(NamedClause(<< X >>), << "l" >>, "\"", ";"),
   StatementText(NamespaceClause("n"), << "e" >>, "'", "")}

ChainFiles == {FileText(f) : f \in StringsOver(ChainStatements, 1, MaxStatements)}

InitChain ==
  /\ InitRun
  /\ options \in ChainConfigs \cup {Undefined}
  /\ text \in ChainFiles

SpecChain == InitChain /\ [][Next]_vars

\* Repeated passes: chains of replacements that end (u -> l -> e), a cycle
\* (u -> l -> u), and a substitution that a pass applies to its own result
\* ('lodash.*' with { lodash: 'lodash-es' }, here 'l.*' with { l: 'le' }).
\* The host runs the passes one after the other until nothing is fixed.
LoopEntries ==
  {Entry(FALSE, << "u" >>, Null, StringReplacement(<< "l" >>)),
   Entry(FALSE, << "l" >>, Null, StringReplacement(<< "e" >>)),
   Entry(FALSE, << "l" >>, Null, StringReplacement(<< "u" >>)),
   Entry(FALSE, << "l", ".", "*" >>, Null,
         ObjectReplacement(<< << << "l" >>, << "l", "e" >> >> >>))}

LoopConfigs == StringsOver(LoopEntries, 1, MaxRules)

LoopStatements ==
  {StatementText(DefaultClause("d"), << "u" >>, "'", ""),
   StatementText(DefaultClause("c"), << "l" >>, "'", ""),
   StatementText(DefaultClause("b"), << "e" >>, "\"", ";")}

LoopFiles == {FileText(f) : f \in StringsOver(LoopStatements, 1, MaxStatements)}

InitLoop ==
  /\ InitRun
  /\ options \in LoopConfigs
  /\ text \in LoopFiles

\* the host runs a pass to its end: it leaves the phases start and visit, in
\* which create, the handler or the application of the fixes is enabled
HostProceeds ==
  /\ phase \in {"start", "visit"}
  /\ phase' \in {"start", "visit", "done", "threw", "fatal"}

SpecLoop == InitLoop /\ [][Next]_vars /\ WF_phase(HostProceeds)

(***************************************************************************)
(* Claims.                                                                 *)
(***************************************************************************)
\* every statement of the pass has been visited
Evaluated == phase \in {"visit", "done"} /\ body # << >> /\ cursor > Len(body)

\* the reports of statement n
ReportsOfNode(n) ==
  SelectSeqBy(reports, {r \in {reports[i] : i \in 1..Len(reports)} : r.node = n})

Flagged(n) == ReportsOfNode(n) # << >>

\* s occurs in t as a contiguous substring and is not t
IsProperSubstring(s, t) ==
  /\ Len(s) < Len(t)
  /\ \E i \in 0..(Len(t) - Len(s)) : SubSeq(t, i + 1, i + Len(s)) = s

\* a string without regular-expression syntax characters
IsLiteralString(s) == \A i \in 1..Len(s) : s[i] \notin RegExpSyntax

\* C1 as stated: with a single bare-string entry T, the statement with source s
\* is flagged when s = T and is not flagged when s is a proper superstring or a
\* proper substring of T.
C1_AsStated ==
  (Evaluated /\ options[1].bare) =>
    LET T == options[1].target
        s == body[1].source.value
    IN /\ s = T => Flagged(1)
       /\ (IsProperSubstring(T, s) \/ IsProperSubstring(s, T)) => ~Flagged(1)

\* C1, amended: for every bare-string entry T that holds no regular-expression
\* syntax character, the statement with source s is flagged when s = T and is
\* not flagged when s is a proper superstring or a proper substring of T.
C1_ExactString ==
  (Evaluated /\ options[1].bare /\ IsLiteralString(options[1].target)) =>
    LET T == options[1].target
        s == body[1].source.value
    IN /\ s = T => Flagged(1)
       /\ (IsProperSubstring(T, s) \/ IsProperSubstring(s, T)) => ~Flagged(1)

C1_Witness ==
  /\ Evaluated
  /\ options[1].bare
  /\ IsLiteralString(options[1].target)
  /\ Len(options[1].target) >= 2
  /\ body[1].source.value = options[1].target
  /\ Flagged(1)

\* the set of offsets at which a match of terms k.. that starts at pos can end
RECURSIVE MatchEnds(_, _, _, _)
MatchEnds(terms, k, s, pos) ==
  IF k > Len(terms) THEN {pos}
  ELSE LET t == terms[k]
           once == IF pos < Len(s) /\ (t.kind = "any" \/ s[pos + 1] = t.c)
                   THEN MatchEnds(terms, k + 1, s, pos + 1) ELSE {}
       IN IF t.opt = 0 THEN once ELSE once \cup MatchEnds(terms, k + 1, s, pos)

\* s is in the language of the pattern P: some alternative of P matches all of s
InLanguage(P, s) ==
  LET alts == SplitAlternatives(P)
  IN \E a \in 1..Len(alts) : Len(s) \in MatchEnds(ParseTerms(alts[a]), 1, s, 0)

\* C2 as stated: a specifier matches an entry only if the whole specifier is in
\* the language of the entry's target, for bare and object entries alike.
C2_WholeSpecifier ==
  Evaluated => (Flagged(1) => InLanguage(options[1].target, body[1].source.value))

\* the source of statement n
SourceOf(n) == body[n].source.value

\* the imported names of the named specifiers of statement n
NamedBindings(n) ==
  {body[n].specifiers[k].imported : k \in
     {k \in 1..Len(body[n].specifiers) : body[n].specifiers[k].type = "ImportSpecifier"}}

\* entry i of the configuration restricts whole modules
Unscoped(i) ==
  options[i].bare \/ options[i].namedImports = Null \/ options[i].namedImports = << >>

\* the names entry i lists
Listed(i) ==
  IF Unscoped(i) THEN {}
  ELSE {options[i].namedImports[k] : k \in 1..Len(options[i].namedImports)}

\* the replacement entry i configures
ReplacementOf(i) == IF options[i].bare THEN NoReplacement ELSE options[i].replacement

\* the target of entry i matches the source of statement n
TargetMatches(i, n) ==
  RegExpTest(RegExpCompile(AnchoredSource(options[i].target)), SourceOf(n))

Statements == 1..Len(body)

Rules == 1..Len(options)

ModuleReports(n) ==
  SelectSeqBy(reports, {r \in {reports[i] : i \in 1..Len(reports)} :
                          r.node = n /\ r.kind = "module"})

\* C3 as stated: a statement that matches a restriction (a rule whose target
\* matches and that has no namedImports or lists one of the statement's named
\* bindings) receives at least one violation, whatever replacements the rules have.
C3_EveryMatchFlagged ==
  Evaluated =>
    \A n \in Statements :
      (\E i \in Rules :
         /\ TargetMatches(i, n)
         /\ (Unscoped(i) \/ Listed(i) \cap NamedBindings(n) # {}))
      => Flagged(n)

\* the earliest rule without namedImports whose target matches statement n
FirstModuleRule(n) ==
  CHOOSE i \in Rules :
    /\ Unscoped(i) /\ TargetMatches(i, n)
    /\ \A j \in 1..(i - 1) : ~(Unscoped(j) /\ TargetMatches(j, n))

\* C4: a module-kind violation is the only violation of its statement and carries
\* the earliest rule without namedImports whose target matches, with that rule's
\* replacement; the report and its plan are those of the configuration cut
\* after that rule, so no later rule influences them.
C4_FirstModuleRuleWins ==
  Evaluated =>
    \A n \in Statements :
      ModuleReports(n) # << >> =>
        LET r == ModuleReports(n)[1]
            first == FirstModuleRule(n)
        IN /\ Len(ReportsOfNode(n)) = 1
           /\ r.rule = first
           /\ r.data.name = options[first].target
           /\ r.data.replacement = ReplacementOf(first)
           /\ << r >> = ImportDeclarationReports(
                          createRestrictedPackagesMap(SubSeq(options, 1, first)),
                          text, body, n)

C4_Witness ==
  /\ Evaluated
  /\ ModuleReports(1) # << >>
  /\ \E i, j \in Rules :
       /\ i < j
       /\ Unscoped(i) /\ TargetMatches(i, 1)
       /\ Unscoped(j) /\ TargetMatches(j, 1)
       /\ ReplacementOf(i) # ReplacementOf(j)
       /\ ModuleReports(1)[1].rule = i

\* C5 as stated: the namedImport violation for a binding b carries the first rule
\* in configuration order whose target matches the source and whose namedImports
\* contains b, with that rule's replacement.
C5_FirstRulePerBinding ==
  Evaluated =>
    \A k \in 1..Len(reports) :
      reports[k].kind = "namedImport" =>
        LET n == reports[k].node
            b == reports[k].data.importedName
            first == CHOOSE i \in Rules :
                       /\ TargetMatches(i, n) /\ b \in Listed(i)
                       /\ \A j \in 1..(i - 1) : ~(TargetMatches(j, n) /\ b \in Listed(j))
        IN /\ reports[k].rule = first
           /\ ~Unscoped(reports[k].rule)
           /\ ReplacementOf(first).type # "object"
           /\ (ReplacementOf(first).type = "string"
                 => reports[k].data.replacement = ReplacementOf(first))

\* the first rule in configuration order whose target matches statement n, or 0
FirstMatchingRule(n) ==
  IF \E i \in Rules : TargetMatches(i, n)
  THEN CHOOSE i \in Rules :
         TargetMatches(i, n) /\ \A j \in 1..(i - 1) : ~TargetMatches(j, n)
  ELSE 0

\* C6 as stated: a statement receives a module-kind violation exactly when the
\* first rule whose target matches its source has no namedImports; when that
\* rule is scoped to named imports no module-kind violation is emitted.
C6_AsStated ==
  Evaluated =>
    \A n \in Statements :
      ModuleReports(n) # << >>
        <=> (FirstMatchingRule(n) # 0 /\ Unscoped(FirstMatchingRule(n)))

\* rule j matches statement n and lists one of its named bindings
ScopedHit(j, n) ==
  TargetMatches(j, n) /\ ~Unscoped(j) /\ Listed(j) \cap NamedBindings(n) # {}

\* C6, amended: a statement receives a module-kind violation exactly when a rule
\* without namedImports matches its source and no earlier matching rule lists
\* one of the statement's named bindings (a matching scoped rule that lists none
\* of them is passed over); when an earlier matching rule does list one, every
\* violation of the statement is a namedImport one.
C6_ModuleUnlessScopedHit ==
  Evaluated =>
    \A n \in Statements :
      /\ ModuleReports(n) # << >>
           <=> \E i \in Rules :
                 /\ Unscoped(i) /\ TargetMatches(i, n)
                 /\ \A j \in 1..(i - 1) : ~ScopedHit(j, n)
      /\ (\E j \in Rules :
            ScopedHit(j, n) /\ \A i \in 1..(j - 1) : ~(Unscoped(i) /\ TargetMatches(i, n)))
           => \A k \in 1..Len(reports) :
                reports[k].node = n => reports[k].kind = "namedImport"

C6_Witness ==
  /\ Evaluated
  /\ FirstMatchingRule(1) # 0
  /\ ~Unscoped(FirstMatchingRule(1))
  /\ NamedBindings(1) # {}
  /\ ModuleReports(1) # << >>

\* C7: a statement whose source matches no rule without namedImports, and none of
\* whose named bindings is listed by a scoped rule that matches its source, gets
\* no violation, and the fixes of a file of such statements leave the text as it
\* was; the local names of default and namespace specifiers do not count.
C7_UnrestrictedUntouched ==
  LET free(n) == \A i \in Rules :
                   TargetMatches(i, n) =>
                     ~Unscoped(i) /\ Listed(i) \cap NamedBindings(n) = {}
  IN /\ Evaluated => \A n \in Statements : free(n) => ~Flagged(n)
     /\ (phase = "done" /\ \A n \in Statements : free(n)) => text = prevText

C7_Witness ==
  /\ phase = "done"
  /\ \E i \in Rules : TargetMatches(i, 1) /\ ~Unscoped(i)
  /\ \A i \in Rules : TargetMatches(i, 1) => ~Unscoped(i)
  /\ \E k \in 1..Len(body[1].specifiers) :
       /\ body[1].specifiers[k].type # "ImportSpecifier"
       /\ \E i \in Rules : TargetMatches(i, 1) /\ body[1].specifiers[k].local \in Listed(i)
  /\ ~Flagged(1)
  /\ text = prevText

\* the text with the token at offset at (0-based) replaced by token
WithToken(tokens, at, token) == [tokens EXCEPT ![at + 1] = token]

\* C8 as stated: the plan of a module-kind violation whose rule has a string
\* replacement R is one edit, which replaces the source literal by R in the
\* quote character of the original literal; applied, it changes nothing else.
C8_StringReplacementEdit ==
  /\ Evaluated =>
       \A k \in 1..Len(reports) :
         (reports[k].kind = "module" /\ ReplacementOf(reports[k].rule).type = "string") =>
           LET node == body[reports[k].node]
               R == ReplacementOf(reports[k].rule).str
           IN /\ ~reports[k].fix.isNull
              /\ reports[k].fix.edits =
                   << [range |-> node.source.range,
                       text |-> << QuotedToken(node.source.raw[1], R) >>] >>
  /\ (phase = "done" /\ Len(body) = 1 /\ ModuleReports(1) # << >>
        /\ ReplacementOf(ModuleReports(1)[1].rule).type = "string") =>
       text = WithToken(prevText, body[1].source.range[1],
                        QuotedToken(body[1].source.raw[1],
                                    ReplacementOf(ModuleReports(1)[1].rule).str))

\* the rule of a report configures no replacement
LacksReplacement(r) == ReplacementOf(r.rule).type = "null"

\* C10: a violation whose rule configures no replacement, module-kind or
\* namedImport-kind, carries a null plan, and when every violation of the pass
\* is such a one the fixed text is the text that was linted.
C10_NoReplacementNoEdit ==
  /\ Evaluated =>
       \A k \in 1..Len(reports) : LacksReplacement(reports[k]) => reports[k].fix.isNull
  /\ (phase = "done" /\ \A k \in 1..Len(reports) : LacksReplacement(reports[k]))
       => text = prevText

C10_Witness ==
  /\ phase = "done"
  /\ reports # << >>
  /\ \A k \in 1..Len(reports) : LacksReplacement(reports[k])
  /\ \E k \in 1..Len(reports) : reports[k].kind = "namedImport"
  /\ Len(options) >= 2
  /\ text = prevText

\* C9 as stated: for a module-kind violation whose replacement is an object, the
\* new specifier is the source rewritten by the pairs one after another in the
\* order the configuration declares them, whatever the keys are.
C9_DeclaredOrder ==
  Evaluated =>
    \A k \in 1..Len(reports) :
      (reports[k].kind = "module" /\ ReplacementOf(reports[k].rule).type = "object") =>
        /\ ~reports[k].fix.isNull
        /\ Len(reports[k].fix.edits) = 1
        /\ reports[k].fix.edits[1].range = body[reports[k].node].source.range
        /\ LiteralValue(reports[k].fix.edits[1].text[1])
             = ApplyPatterns(SourceOf(reports[k].node),
                             ReplacementOf(reports[k].rule).map)

\* the message of a report names a replacement
WithReplacementMessage(r) ==
  r.messageId \in {"ImportRestrictionWithReplacement",
                   "ImportedNameRestrictionWithReplacement"}

\* C11 as stated: a violation is reported with the with-replacement message
\* exactly when it carries an edit plan, whatever the form of the replacement
\* (string, object, empty string, absent).
C11_MessageTellsPlan ==
  Evaluated =>
    \A k \in 1..Len(reports) :
      WithReplacementMessage(reports[k]) <=> ~reports[k].fix.isNull

\* the namedImport reports of statement n
NamedReports(n) ==
  SelectSeqBy(reports, {r \in {reports[i] : i \in 1..Len(reports)} :
                          r.node = n /\ r.kind = "namedImport"})

\* the imported names of the flagged bindings of statement n
FlaggedNames(n) == {NamedReports(n)[i].data.importedName : i \in 1..Len(NamedReports(n))}

\* the specifiers of statement n minus its flagged named bindings
RemainingSpecifiers(n) ==
  LET specifiers == body[n].specifiers
  IN SelectSeqBy(specifiers,
       {sp \in {specifiers[i] : i \in 1..Len(specifiers)} :
          sp.type # "ImportSpecifier" \/ sp.imported \notin FlaggedNames(n)})

\* the edits of a plan on the range of statement n
EditsOn(fix, n) ==
  SelectSeqBy(fix.edits, {e \in {fix.edits[i] : i \in 1..Len(fix.edits)} :
                            e.range = body[n].range})

\* the tokens are one import statement of the module with these specifiers
IsImportOf(tokens, specifiers, module) ==
  /\ Parse(tokens).ok
  /\ Len(Parse(tokens).body) = 1
  /\ Parse(tokens).body[1].specifiers = specifiers
  /\ Parse(tokens).body[1].source.value = module

\* C12 as stated: the plan of a namedImport violation has one edit on the offending
\* statement: it removes the statement when no specifier remains, and otherwise
\* replaces it by an import of the same module with exactly the remaining
\* specifiers (default specifier and aliases included) in their order.
C12_RemainingSpecifiers ==
  Evaluated =>
    \A k \in 1..Len(reports) :
      (reports[k].kind = "namedImport" /\ ~reports[k].fix.isNull) =>
        LET n == reports[k].node
            on == EditsOn(reports[k].fix, n)
        IN /\ Len(on) = 1
           /\ IF RemainingSpecifiers(n) = << >> THEN on[1].text = << >>
              ELSE IsImportOf(on[1].text, RemainingSpecifiers(n), SourceOf(n))

\* the replacement modules the flagged bindings of statement n resolve to
ReplacementModulesOf(n) ==
  {ReplacementOf(NamedReports(n)[i].rule).str :
     i \in {i \in 1..Len(NamedReports(n)) : IsTruthy(ReplacementOf(NamedReports(n)[i].rule))}}

\* the named specifiers of statement n whose violation resolves to module R, in
\* the order of the statement
MovedTo(n, R) ==
  LET named == OfType(body[n].specifiers, "ImportSpecifier")
  IN SelectSeqBy(named,
       {sp \in {named[i] : i \in 1..Len(named)} :
          \E i \in 1..Len(NamedReports(n)) :
            /\ NamedReports(n)[i].data.importedName = sp.imported
            /\ IsTruthy(ReplacementOf(NamedReports(n)[i].rule))
            /\ ReplacementOf(NamedReports(n)[i].rule).str = R})

\* some statement of the linted file imports module R
ImportedInFile(R) == \E n \in Statements : SourceOf(n) = R

\* the edits of a plan that insert an import of module R before statement n
InsertsOf(fix, n, R) ==
  SelectSeqBy(fix.edits,
    {e \in {fix.edits[i] : i \in 1..Len(fix.edits)} :
       /\ e.range = << body[n].range[1], body[n].range[1] >>
       /\ Parse(e.text).ok
       /\ Len(Parse(e.text).body) = 1
       /\ Parse(e.text).body[1].source.value = R})

\* the fixes of the pass have been applied: reports and body are those of
\* prevText, and text is the fixed text
Fixed == phase \in {"start", "done"} /\ pass >= 1

\* statement j of the fixed text imports exactly these specifiers from module
IsStatement(fixedBody, j, specifiers, module) ==
  /\ j \in 1..Len(fixedBody)
  /\ fixedBody[j].specifiers = specifiers
  /\ fixedBody[j].source.value = module

\* the plans of the pass are all plans of statement n, so no other statement of
\* the file is removed or split in the pass
OnlyPlanOf(n) ==
  \A k \in 1..Len(reports) : ~reports[k].fix.isNull => reports[k].node = n

\* C13 as stated: for a replacement module R that no statement of the file
\* imports, the plan of statement n has exactly one edit that inserts, at the
\* start of n, the statement "import { moved bindings } from R" and a newline;
\* in the fixed text that import comes after the statements that preceded n and
\* only new imports stand between it and what is left of n (read on the passes
\* in which n is the only statement with a plan).
C13_NewImportBeforeStatement ==
  /\ Evaluated =>
       \A k \in 1..Len(reports) :
         (reports[k].kind = "namedImport" /\ ~reports[k].fix.isNull) =>
           LET n == reports[k].node
           IN \A R \in ReplacementModulesOf(n) :
                ~ImportedInFile(R) =>
                  LET ins == InsertsOf(reports[k].fix, n, R)
                  IN /\ Len(ins) = 1
                     /\ Parse(ins[1].text).body[1].specifiers = MovedTo(n, R)
                     /\ ins[1].text[Len(ins[1].text)] = NL
  /\ Fixed =>
       \A n \in Statements : \A R \in ReplacementModulesOf(n) :
         (OnlyPlanOf(n) /\ ~ImportedInFile(R)) =>
           /\ Parse(text).ok
           /\ \E j \in n..Len(Parse(text).body) :
                /\ IsStatement(Parse(text).body, j, MovedTo(n, R), R)
                /\ RemainingSpecifiers(n) # << >> =>
                     \E i \in (j + 1)..Len(Parse(text).body) :
                       /\ IsStatement(Parse(text).body, i, RemainingSpecifiers(n), SourceOf(n))
                       /\ \A l \in (j + 1)..(i - 1) :
                            Parse(text).body[l].source.value \in ReplacementModulesOf(n)

\* the first statement of the linted file that imports module R
FirstImportOf(R) ==
  CHOOSE e \in Statements :
    SourceOf(e) = R /\ \A j \in 1..(e - 1) : SourceOf(j) # R

\* the bindings moved from statement n to module R that statement e does not
\* import yet (by imported name)
AddedTo(e, n, R) ==
  SelectSeqBy(MovedTo(n, R),
    {sp \in {MovedTo(n, R)[i] : i \in 1..Len(MovedTo(n, R))} :
       sp.imported \notin NamedBindings(e)})

\* the statements of a parsed file that import module R
ImportsOf(fixedBody, R) == {j \in 1..Len(fixedBody) : fixedBody[j].source.value = R}

\* C14 as stated: when a statement e of the file imports the replacement module
\* R, the plan of statement n inserts no import of R; it rewrites e into an
\* import of R that holds the specifiers of e followed by the moved bindings e
\* does not import yet (and leaves e alone when there is none).  In the fixed
\* text one statement imports R, with these specifiers, and n is gone when none
\* of its specifiers remains.
C14_MergeIntoExistingImport ==
  /\ Evaluated =>
       \A k \in 1..Len(reports) :
         (reports[k].kind = "namedImport" /\ ~reports[k].fix.isNull) =>
           LET n == reports[k].node
           IN \A R \in ReplacementModulesOf(n) :
                ImportedInFile(R) =>
                  LET e == FirstImportOf(R)
                      on == EditsOn(reports[k].fix, e)
                  IN /\ InsertsOf(reports[k].fix, n, R) = << >>
                     /\ IF AddedTo(e, n, R) = << >> THEN on = << >>
                        ELSE /\ Len(on) = 1
                             /\ IsImportOf(on[1].text,
                                           body[e].specifiers \o AddedTo(e, n, R), R)
  /\ Fixed =>
       \A n \in Statements : \A R \in ReplacementModulesOf(n) :
         (OnlyPlanOf(n) /\ ImportedInFile(R) /\ Cardinality(ImportsOf(body, R)) = 1) =>
           /\ Parse(text).ok
           /\ Cardinality(ImportsOf(Parse(text).body, R)) = 1
           /\ \A j \in ImportsOf(Parse(text).body, R) :
                Parse(text).body[j].specifiers
                  = body[FirstImportOf(R)].specifiers \o AddedTo(FirstImportOf(R), n, R)
           /\ RemainingSpecifiers(n) = << >> =>
                Cardinality(ImportsOf(Parse(text).body, SourceOf(n)))
                  = Cardinality(ImportsOf(body, SourceOf(n))) - 1

\* some statement of a parsed text imports module R with the specifier sp
ImportsSpecifier(tokens, R, sp) ==
  /\ Parse(tokens).ok
  /\ \E j \in ImportsOf(Parse(tokens).body, R) :
       Includes(Parse(tokens).body[j].specifiers, sp)

\* C15 as stated: every flagged named specifier that resolves to a replacement
\* module R is written by the plan, into a new import of R or into the
\* rewritten existing import of R, with its imported name and its local name,
\* and the fixed text imports it from R under that pair.
C15_AliasKept ==
  /\ Evaluated =>
       \A k \in 1..Len(reports) :
         (reports[k].kind = "namedImport" /\ ~reports[k].fix.isNull) =>
           LET n == reports[k].node
           IN \A R \in ReplacementModulesOf(n) :
                \A i \in 1..Len(MovedTo(n, R)) :
                  \E e \in 1..Len(reports[k].fix.edits) :
                    ImportsSpecifier(reports[k].fix.edits[e].text, R, MovedTo(n, R)[i])
  /\ Fixed =>
       \A n \in Statements : \A R \in ReplacementModulesOf(n) :
         OnlyPlanOf(n) =>
           \A i \in 1..Len(MovedTo(n, R)) : ImportsSpecifier(text, R, MovedTo(n, R)[i])

\* the index, among the violations of statement n, of the first flagged binding
\* that resolves to module R
FirstOccurrence(n, R) ==
  CHOOSE i \in 1..Len(NamedReports(n)) :
    /\ IsTruthy(ReplacementOf(NamedReports(n)[i].rule))
    /\ ReplacementOf(NamedReports(n)[i].rule).str = R
    /\ \A j \in 1..(i - 1) :
         ~(/\ IsTruthy(ReplacementOf(NamedReports(n)[j].rule))
           /\ ReplacementOf(NamedReports(n)[j].rule).str = R)

\* the index in the plan of its first edit that inserts an import of module R
\* before statement n, or 0
InsertIndex(fix, n, R) ==
  LET at == {e \in 1..Len(fix.edits) : Includes(InsertsOf(fix, n, R), fix.edits[e])}
  IN IF at = {} THEN 0 ELSE CHOOSE e \in at : \A f \in at : e <= f

\* C16 as stated: a plan has one relocation target per replacement module of
\* the statement's flagged bindings: a new import that holds exactly the
\* bindings resolved to the module when the file does not import it, the
\* existing import (extended by exactly those bindings it lacks) when it does;
\* and the new imports are emitted, and stand in the fixed text, in the order
\* in which their modules first occur among the flagged bindings.
C16_OneTargetPerModule ==
  /\ Evaluated =>
       \A k \in 1..Len(reports) :
         (reports[k].kind = "namedImport" /\ ~reports[k].fix.isNull) =>
           LET n == reports[k].node
               fix == reports[k].fix
           IN /\ \A R \in ReplacementModulesOf(n) :
                   IF ImportedInFile(R)
                   THEN /\ InsertsOf(fix, n, R) = << >>
                        /\ \A e \in 1..Len(EditsOn(fix, FirstImportOf(R))) :
                             IsImportOf(EditsOn(fix, FirstImportOf(R))[e].text,
                               body[FirstImportOf(R)].specifiers
                                 \o AddedTo(FirstImportOf(R), n, R), R)
                   ELSE /\ Len(InsertsOf(fix, n, R)) = 1
                        /\ Parse(InsertsOf(fix, n, R)[1].text).body[1].specifiers
                             = MovedTo(n, R)
              /\ \A R1, R2 \in ReplacementModulesOf(n) :
                   (/\ ~ImportedInFile(R1) /\ ~ImportedInFile(R2)
                    /\ FirstOccurrence(n, R1) < FirstOccurrence(n, R2)) =>
                     /\ InsertIndex(fix, n, R1) # 0
                     /\ InsertIndex(fix, n, R1) < InsertIndex(fix, n, R2)
  /\ Fixed =>
       \A n \in Statements : \A R1, R2 \in ReplacementModulesOf(n) :
         (/\ OnlyPlanOf(n) /\ ~ImportedInFile(R1) /\ ~ImportedInFile(R2)
          /\ FirstOccurrence(n, R1) < FirstOccurrence(n, R2)) =>
           /\ Parse(text).ok
           /\ \E j1 \in ImportsOf(Parse(text).body, R1) :
                \E j2 \in ImportsOf(Parse(text).body, R2) : j1 < j2

\* the edits of a plan of statement n that rewrite its source literal, rewrite
\* or remove the statement, or insert text before it
EditsAt(fix, n) ==
  SelectSeqBy(fix.edits,
    {e \in {fix.edits[i] : i \in 1..Len(fix.edits)} :
       e.range \in {body[n].source.range, body[n].range,
                    << body[n].range[1], body[n].range[1] >>}})

\* the tokens of a text that open with a quote character
QuotedTokens(tokens) ==
  {tokens[i] : i \in {i \in 1..Len(tokens) : tokens[i][1] \in Quotes}}

\* C17 as stated: every string literal a plan writes at the offending statement
\* (the rewritten source literal, the regenerated statement, a new import) is
\* delimited by the quote character that delimits the statement's source
\* literal, whatever the value of the specifier.
C17_QuoteKept ==
  Evaluated =>
    \A k \in 1..Len(reports) :
      ~reports[k].fix.isNull =>
        LET n == reports[k].node
            written == EditsAt(reports[k].fix, n)
        IN \A e \in 1..Len(written) : \A t \in QuotedTokens(written[e].text) :
             /\ t[1] = body[n].source.raw[1]
             /\ t[Len(t)] = body[n].source.raw[1]

\* the text the reports of the pass are about
LintedText == IF phase = "visit" THEN text ELSE prevText

\* statement n of the linted text ends with a semicolon
EndsWithSemicolonToken(n) == LintedText[body[n].range[2]] = Tok(";")

\* the last token of a written statement, the newline after it apart
LastToken(tokens) ==
  IF tokens[Len(tokens)] = NL THEN tokens[Len(tokens) - 1] ELSE tokens[Len(tokens)]

\* C18 as stated: every statement a named-import plan writes at the offending
\* statement (the regenerated statement, a new import) ends with a semicolon
\* exactly when the offending statement does.
C18_SemicolonKept ==
  Evaluated =>
    \A k \in 1..Len(reports) :
      (reports[k].kind = "namedImport" /\ ~reports[k].fix.isNull) =>
        LET n == reports[k].node
            written == EditsAt(reports[k].fix, n)
        IN \A e \in 1..Len(written) :
             Len(written[e].text) >= 2 =>
               (LastToken(written[e].text) = Tok(";") <=> EndsWithSemicolonToken(n))

\* what the handler reports on every statement of the fixed text (nothing when
\* the fixed text does not parse: the host then reports a parse error)
ReevaluatedReports ==
  IF ~Parse(text).ok \/ createRestrictedPackagesMapThrows(options) THEN << >>
  ELSE Flatten([n \in 1..Len(Parse(text).body) |->
         ImportDeclarationReports(createRestrictedPackagesMap(options), text,
                                  Parse(text).body, n)])

\* some entry of the configuration matches the module
MatchedBySomeRule(module) ==
  \E i \in Rules : RegExpTest(RegExpCompile(AnchoredSource(options[i].target)), module)

\* the modules the plan of report r moves its statement or its bindings to
ReplacementModulesOfPlan(r) ==
  IF r.kind = "namedImport" THEN ReplacementModulesOf(r.node)
  ELSE IF ReplacementOf(r.rule).type = "string" THEN {ReplacementOf(r.rule).str}
  ELSE {LiteralValue(r.fix.edits[1].text[1])}

\* the violations of the pass all belong to statement n and the plan of report
\* k, one of them, has been applied
PlanApplied(k) ==
  /\ Fixed
  /\ ~reports[k].fix.isNull
  /\ \A j \in 1..Len(reports) : reports[j].node = reports[k].node
  /\ \A R \in ReplacementModulesOfPlan(reports[k]) : ~MatchedBySomeRule(R)

\* C19: when the plan of a statement has been applied and no entry matches a
\* module the plan moves to, evaluating the fixed text reports no violation of
\* the rule that fired.
C19_FixedTextIsClean ==
  \A k \in 1..Len(reports) :
    PlanApplied(k) =>
      \A j \in 1..Len(ReevaluatedReports) :
        ReevaluatedReports[j].rule # reports[k].rule

\* the plan of a split has been applied: a new import of a module the file did
\* not import, and the regenerated statement with what remains, both of which
\* the evaluation of the fixed text visits
C19_Witness ==
  \E k \in 1..Len(reports) :
    /\ PlanApplied(k)
    /\ reports[k].kind = "namedImport"
    /\ RemainingSpecifiers(reports[k].node) # << >>
    /\ \E R \in ReplacementModulesOf(reports[k].node) : ~ImportedInFile(R)
    /\ Parse(text).ok
    /\ Len(Parse(text).body) = Len(body) + 1
    /\ phase = "start"

\* the host stopped on the plan of the statement at the cursor because two of
\* its edits overlap
StoppedOnOverlap ==
  /\ phase = "threw"
  /\ cursor \in 1..Len(body)
  /\ LET rs == ImportDeclarationReports(restrictedPackages, text, body, cursor)
     IN \E k \in 1..Len(rs) : EditsOverlap(rs[k].fix.edits)

\* C20 as stated: no two edits of a plan overlap; no statement is rewritten or
\* removed by two edits of a plan; and the offending statement is never its own
\* merge target: when its flagged bindings resolve to the module it imports
\* from, and no earlier statement imports that module, the plan relocates them
\* into a new import or into another statement that imports the module.
C20_NoOverlapInPlan ==
  /\ ~StoppedOnOverlap
  /\ Evaluated =>
       \A k \in 1..Len(reports) :
         (reports[k].kind = "namedImport" /\ ~reports[k].fix.isNull) =>
           LET n == reports[k].node
               fix == reports[k].fix
           IN /\ ~EditsOverlap(fix.edits)
              /\ \A e \in Statements : Len(EditsOn(fix, e)) <= 1
              /\ \A R \in ReplacementModulesOf(n) :
                   (R = SourceOf(n) /\ FirstImportOf(R) = n) =>
                     \/ InsertsOf(fix, n, R) # << >>
                     \/ \E e \in ImportsOf(body, R) \ {n} : EditsOn(fix, e) # << >>

\* evaluating the fixed text gives no violation that carries a plan: no further
\* fix will be applied
NoPlanLeft ==
  \A j \in 1..Len(ReevaluatedReports) : ReevaluatedReports[j].fix.isNull

\* C21 as stated: when two statements of the file relocate bindings to a module
\* R that no statement imports, then once no fix is left to apply the file has
\* exactly one import of R, and it holds the bindings moved from both.
C21_OneImportAfterAllFixes ==
  (Fixed /\ NoPlanLeft) =>
    \A n1, n2 \in Statements :
      \A R \in ReplacementModulesOf(n1) \cap ReplacementModulesOf(n2) :
        (n1 < n2 /\ ~ImportedInFile(R)) =>
          /\ Parse(text).ok
          /\ Cardinality(ImportsOf(Parse(text).body, R)) = 1
          /\ \A j \in ImportsOf(Parse(text).body, R) :
               \A sp \in {MovedTo(n1, R)[i] : i \in 1..Len(MovedTo(n1, R))}
                         \cup {MovedTo(n2, R)[i] : i \in 1..Len(MovedTo(n2, R))} :
                 Includes(Parse(text).body[j].specifiers, sp)

\* two source ranges share a character, or are the same range
RangesOverlap(a, b) == (a[1] < b[2] /\ b[1] < a[2]) \/ a = b

\* C22 as stated: the plans computed in one pass for two different statements
\* of a file have no edits with overlapping ranges, two statements that
\* relocate bindings into the same existing import included.
C22_PlansOfStatementsDisjoint ==
  Evaluated =>
    \A i, j \in 1..Len(reports) :
      reports[i].node # reports[j].node =>
        \A a \in 1..Len(reports[i].fix.edits), b \in 1..Len(reports[j].fix.edits) :
          ~RangesOverlap(reports[i].fix.edits[a].range, reports[j].fix.edits[b].range)

\* a target or a key of a substitution map of the configuration is not a valid
\* regular expression
InvalidConfiguration ==
  \/ createRestrictedPackagesMapThrows(options)
  \/ \E i \in Rules : createPatternReplacerThrows(options[i].replacement)

\* C23 as stated: with a configuration that holds an invalid regular expression
\* no table is ever built and no violation is reported; the error is raised by
\* create, never while a fix is computed.
C23_ConfigErrorsAtTableBuild ==
  InvalidConfiguration =>
    /\ phase \in {"start", "threw"}
    /\ restrictedPackages = << >>
    /\ reports = << >>

\* some other entry than i restricts the whole module that entry i writes
ReplacementRestricted(i) ==
  /\ ReplacementOf(i).type = "string"
  /\ \E j \in Rules \ {i} :
       /\ Unscoped(j)
       /\ RegExpTest(RegExpCompile(AnchoredSource(options[j].target)), ReplacementOf(i).str)

\* C24: a statement that an unscoped entry with a string replacement matches
\* gets exactly one violation in an evaluation, and its plan is one edit that
\* writes that entry's replacement over the specifier, also when another entry
\* restricts the replacement module.
C24_OnlyMatchedRuleApplied ==
  Evaluated =>
    \A n \in Statements :
      \A k \in 1..Len(ModuleReports(n)) :
        LET r == ModuleReports(n)[k]
        IN ReplacementOf(r.rule).type = "string" /\ ReplacementOf(r.rule).str # << >> =>
             /\ Len(ReportsOfNode(n)) = 1
             /\ TargetMatches(r.rule, n)
             /\ r.fix = Fix(<< ReplaceText(body[n].source,
                               << QuotedToken(getQuoteStyle(body[n].source.raw),
                                              ReplacementOf(r.rule).str) >>) >>)

\* the plan of entry underscore -> lodash has been applied while another entry
\* restricts lodash: the file imports from lodash
C24_Witness ==
  /\ Fixed
  /\ pass = 1
  /\ Len(body) = 1
  /\ \E k \in 1..Len(reports) :
       /\ reports[k].kind = "module"
       /\ ReplacementRestricted(reports[k].rule)
       /\ Parse(text).ok
       /\ Parse(text).body[1].source.value = ReplacementOf(reports[k].rule).str

\* C25 as stated: with no options, as in the recommended config, create and
\* the visits of the import statements complete without an error and report
\* no violation.
C25_RecommendedConfigRuns ==
  options = Undefined => phase # "threw" /\ reports = << >>

\* how many times the statements of a body that import from one of the modules
\* import the specifier
RECURSIVE CountIn(_, _)
CountIn(specifiers, sp) ==
  IF specifiers = << >> THEN 0
  ELSE (IF specifiers[1] = sp THEN 1 ELSE 0) + CountIn(Tail(specifiers), sp)

ImportCount(someBody, modules, sp) ==
  CountIn(Flatten([j \in 1..Len(someBody) |->
                     IF someBody[j].source.value \in modules
                     THEN someBody[j].specifiers ELSE << >>]), sp)

\* the offending statement n and the statements its plan merges into
PlanStatements(n) ==
  {n} \cup {FirstImportOf(R) : R \in {Q \in ReplacementModulesOf(n) : ImportedInFile(Q)}}

\* C26 as stated: once the named-import plan of statement n is applied, every
\* specifier that n and its merge targets imported, and that the file imported
\* once from the original and the replacement modules, is imported exactly
\* once from those modules.
C26_BindingsPreserved ==
  \A n \in Statements :
    (Fixed /\ OnlyPlanOf(n) /\ \E k \in 1..Len(NamedReports(n)) : ~NamedReports(n)[k].fix.isNull) =>
      LET modules == {SourceOf(n)} \cup ReplacementModulesOf(n)
      IN \A e \in PlanStatements(n) :
           \A i \in 1..Len(body[e].specifiers) :
             ImportCount(body, modules, body[e].specifiers[i]) = 1 =>
               /\ Parse(text).ok
               /\ ImportCount(Parse(text).body, modules, body[e].specifiers[i]) = 1

\* the flagged named specifiers of statement n whose violation names no
\* replacement
FlaggedWithoutReplacement(n) ==
  {sp \in {body[n].specifiers[i] : i \in 1..Len(body[n].specifiers)} :
     /\ sp.type = "ImportSpecifier"
     /\ \E k \in 1..Len(NamedReports(n)) :
          /\ NamedReports(n)[k].data.importedName = sp.imported
          /\ NamedReports(n)[k].fix.isNull}

\* C27 as stated: once the plan of statement n is applied, a flagged binding
\* of n whose rule has no replacement is still imported from the module n
\* imports from.
C27_UnreplacedBindingStays ==
  \A n \in Statements :
    (Fixed /\ OnlyPlanOf(n) /\ \E k \in 1..Len(NamedReports(n)) : ~NamedReports(n)[k].fix.isNull) =>
      \A sp \in FlaggedWithoutReplacement(n) : ImportsSpecifier(text, SourceOf(n), sp)

\* C28 as stated: when the import that the plan of statement n merges into has
\* no named specifiers, the fixed text imports every moved binding from the
\* replacement module and every specifier the existing import had.
C28_MergeWithoutNamedSpecifiers ==
  \A n \in Statements :
    (Fixed /\ OnlyPlanOf(n) /\ \E k \in 1..Len(NamedReports(n)) : ~NamedReports(n)[k].fix.isNull) =>
      \A R \in ReplacementModulesOf(n) :
        (ImportedInFile(R) /\ NamedBindings(FirstImportOf(R)) = {}) =>
          /\ \A i \in 1..Len(MovedTo(n, R)) : ImportsSpecifier(text, R, MovedTo(n, R)[i])
          /\ \A i \in 1..Len(body[FirstImportOf(R)].specifiers) :
               ImportsSpecifier(text, R, body[FirstImportOf(R)].specifiers[i])

\* create has built the table
TableBuilt == phase \in {"visit", "done"} \/ (phase = "start" /\ pass >= 1)

\* no unscoped entry matches the source of statement n
NoModuleRule(n) == \A i \in Rules : Unscoped(i) => ~TargetMatches(i, n)

\* C29: the table has one rule per configuration entry, in the order of the
\* configuration, each with the pattern, the replacement and the names of its
\* entry; and an entry with the target of an earlier one still restricts the
\* names it lists: a statement that imports one of them from a matching module
\* that no unscoped entry restricts gets a violation for that name.
C29_OneRulePerEntry ==
  /\ TableBuilt =>
       /\ Len(restrictedPackages) = Len(options)
       /\ \A i \in Rules :
            /\ restrictedPackages[i].pattern.source = AnchoredSource(options[i].target)
            /\ restrictedPackages[i].replacement = ReplacementOf(i)
            /\ restrictedPackages[i].namedImports =
                 (IF options[i].bare THEN Null ELSE options[i].namedImports)
  /\ Evaluated =>
       \A n \in Statements : \A i, j \in Rules :
         (/\ i < j
          /\ options[i].target = options[j].target
          /\ NoModuleRule(n)
          /\ TargetMatches(j, n)
          /\ ReplacementOf(j).type \in {"string", "null"}) =>
           Listed(j) \cap NamedBindings(n) \subseteq FlaggedNames(n)

\* two entries have the same target and a statement is flagged for a name that
\* only the later one lists
C29_Witness ==
  /\ Evaluated
  /\ \E n \in Statements : \E k \in 1..Len(NamedReports(n)) :
       LET r == NamedReports(n)[k]
       IN /\ r.rule > 1
          /\ \E i \in 1..(r.rule - 1) :
               /\ options[i].target = options[r.rule].target
               /\ options[i].namedImports # options[r.rule].namedImports
               /\ r.data.importedName \notin Listed(i)

\* the entry whose module plan a pass applies to a statement that imports the
\* module with no named binding, or 0
PlanRuleOf(module) ==
  LET table == createRestrictedPackagesMap(options)
      r == checkIsRestrictedImport(module, << >>, table)
  IN IF r.type = "module" /\ IsTruthy(table[r.pattern].replacement) THEN r.pattern ELSE 0

\* the specifier that plan writes
RewrittenSpecifier(module) ==
  LET replacement == ReplacementOf(PlanRuleOf(module))
  IN IF replacement.type = "string" THEN replacement.str
     ELSE ApplyPatterns(module, ObjectEntries(replacement.map))

\* within fuel passes the specifier is rewritten to one it had before
RECURSIVE Repeats(_, _, _)
Repeats(module, seen, fuel) ==
  IF fuel = 0 \/ PlanRuleOf(module) = 0 THEN FALSE
  ELSE \/ RewrittenSpecifier(module) \in seen \cup {module}
       \/ Repeats(RewrittenSpecifier(module), seen \cup {module}, fuel - 1)

\* the replacements form no cycle on the specifiers of the file
NoCycle ==
  /\ Parse(text).ok
  /\ \A n \in 1..Len(Parse(text).body) :
       ~Repeats(Parse(text).body[n].source.value, {}, MaxPasses + 1)

\* C30 as stated: when the replacements form no cycle, the passes lead to a
\* file in which no violation carries a plan.
C30_PassesTerminate == NoCycle ~> NoPlanLeft

=============================================================================
